---- MODULE Spec2Model ----
(***************************************************************************)
(* A model of src/app4.py: the Streamlit script of the "Hibiki" chat, its  *)
(* session state, the three LangGraph nodes (memory retrieval, response    *)
(* planning, response generation with persistence) and the turn handler    *)
(* around graph.invoke.  One script run is a walk of pc from "L18" to      *)
(* "idle"; the memory store and the completion provider are external and   *)
(* every call to them either returns or raises.                            *)
(***************************************************************************)
EXTENDS Naturals, Sequences, FiniteSets, TLC

\* ------------------------------------------------------------ bounds
\* chat turns submitted in one session
MaxTurns == 2
\* records in one search result
MaxResults == 2
\* chat turns in the sessions that take every search result
MaxShapeTurns == 1

\* ------------------------------------------------------------ Python values
\* The values the script handles are tagged: None, str, dict (its items in
\* insertion order, as <<key, value>> pairs) and list.
None == [t |-> "none"]
PyStr(s) == [t |-> "str", s |-> s]
PyDict(kv) == [t |-> "dict", kv |-> kv]
PyList(items) == [t |-> "list", items |-> items]

\* bool(v): None, "", {} and [] are falsy, every other object is truthy
Truthy(v) ==
    CASE v.t = "none" -> FALSE
      [] v.t = "str" -> v.s # ""
      [] v.t = "dict" -> v.kv # <<>>
      [] v.t = "list" -> v.items # <<>>
      [] OTHER -> TRUE

Keys(d) == {d.kv[i][1] : i \in DOMAIN d.kv}
GetItem(d, k) == d.kv[CHOOSE i \in DOMAIN d.kv : d.kv[i][1] = k][2]

\* the pieces a text of the model can be cut into around a needle
Affixes == {"", "my ", " here"}
\* needle in hay, for two str
Substring(needle, hay) == \E a, b \in Affixes : a \o needle \o b = hay

\* `k in v`: "ok" with the answer, or the TypeError Python raises when v is
\* not a container
PyIn(k, v) ==
    CASE v.t = "dict" -> [exc |-> "", val |-> k \in Keys(v)]
      [] v.t = "str" -> [exc |-> "", val |-> Substring(k, v.s)]
      [] v.t = "list" -> [exc |-> "", val |-> \E i \in DOMAIN v.items : v.items[i] = PyStr(k)]
      [] OTHER -> [exc |-> "TypeError", val |-> FALSE]

\* `v[k]` for a str key k: a dict gives the item (KeyError when missing), a
\* str, a list or None raise TypeError
PySubscript(v, k) ==
    IF v.t = "dict"
    THEN IF k \in Keys(v) THEN [exc |-> "", val |-> GetItem(v, k)]
                          ELSE [exc |-> "KeyError", val |-> None]
    ELSE [exc |-> "TypeError", val |-> None]

RECURSIVE PyRepr(_)
RECURSIVE ReprItems(_)
\* the items of a dict as repr prints them: 'k': repr(v), joined by ", "
ReprItems(kv) ==
    IF kv = <<>> THEN ""
    ELSE "'" \o kv[1][1] \o "': " \o PyRepr(kv[1][2])
         \o (IF Len(kv) > 1 THEN ", " \o ReprItems(Tail(kv)) ELSE "")
RECURSIVE ReprList(_)
ReprList(items) ==
    IF items = <<>> THEN ""
    ELSE PyRepr(items[1]) \o (IF Len(items) > 1 THEN ", " \o ReprList(Tail(items)) ELSE "")
PyRepr(v) ==
    CASE v.t = "none" -> "None"
      [] v.t = "str" -> "'" \o v.s \o "'"
      [] v.t = "dict" -> "{" \o ReprItems(v.kv) \o "}"
      [] v.t = "list" -> "[" \o ReprList(v.items) \o "]"

\* str(v): a str is itself, anything else prints as its repr
PyStrOf(v) == IF v.t = "str" THEN v.s ELSE PyRepr(v)

RECURSIVE JoinStrings(_, _)
\* sep.join(xs) for a sequence of texts
JoinStrings(sep, xs) ==
    IF xs = <<>> THEN ""
    ELSE IF Len(xs) = 1 THEN xs[1]
    ELSE xs[1] \o sep \o JoinStrings(sep, Tail(xs))

\* a join that leaves the separator out
PyJoinNoSeparator(sep, vs) ==
    IF \E i \in DOMAIN vs : vs[i].t # "str"
    THEN [exc |-> "TypeError", val |-> ""]
    ELSE [exc |-> "", val |-> JoinStrings("", [i \in DOMAIN vs |-> vs[i].s])]

\* sep.join(vs) for Python values: TypeError unless every item is a str
PyJoin(sep, vs) ==
    IF \E i \in DOMAIN vs : vs[i].t # "str"
    THEN [exc |-> "TypeError", val |-> ""]
    ELSE [exc |-> "", val |-> JoinStrings(sep, [i \in DOMAIN vs |-> vs[i].s])]

\* ------------------------------------------------------------ retrieval: normalisation
\* the text of line 148 ("there is no related memory"), written in ASCII
Sentinel == "kanren suru kioku wa arimasen."

\* the filter of the comprehension, for one record r:
\*   isinstance(r, dict) and "value" in r and "content" in r["value"]
\* "keep", "skip", or the exception the test itself raises
KeepRecord(r) ==
    IF r.t # "dict" THEN "skip"
    ELSE IF "value" \notin Keys(r) THEN "skip"
    ELSE LET c == PyIn("content", GetItem(r, "value"))
         IN  IF c.exc # "" THEN c.exc
             ELSE IF c.val THEN "keep" ELSE "skip"

\* the element of the comprehension, r["value"]["content"], for a kept r
RecordContent(r) == PySubscript(GetItem(r, "value"), "content")

RECURSIVE Comprehension(_)
\* [r["value"]["content"] for r in search_results if <filter>], left to right;
\* the first exception ends the evaluation
Comprehension(rs) ==
    IF rs = <<>> THEN [exc |-> "", val |-> <<>>]
    ELSE LET k == KeepRecord(rs[1])
         IN  IF k \notin {"keep", "skip"} THEN [exc |-> k, val |-> <<>>]
             ELSE LET e == IF k = "keep" THEN RecordContent(rs[1])
                                         ELSE [exc |-> "", val |-> None]
                  IN  IF e.exc # "" THEN [exc |-> e.exc, val |-> <<>>]
                      ELSE LET rest == Comprehension(Tail(rs))
                           IN  IF rest.exc # "" THEN rest
                               ELSE [exc |-> "",
                                     val |-> (IF k = "keep" THEN <<e.val>> ELSE <<>>)
                                             \o rest.val]

\* "\n".join(str(r) for r in search_results)
Stringify(rs) == JoinStrings("\n", [i \in DOMAIN rs |-> PyStrOf(rs[i])])

\* the block without its except clause
MemoryTextUnguarded(search_results) ==
    IF ~Truthy(search_results) THEN [exc |-> "", val |-> ""]
    ELSE LET c == Comprehension(search_results.items)
         IN  IF c.exc = "" THEN PyJoin("\n", c.val) ELSE [exc |-> c.exc, val |-> ""]

\* lines 137-144: memory_text after the if/try/except.  exc is the exception
\* the block lets escape ("" when none does).
MemoryText(search_results) ==
    IF ~Truthy(search_results) THEN [exc |-> "", val |-> ""]
    ELSE LET c == Comprehension(search_results.items)
             j == IF c.exc = "" THEN PyJoin("\n", c.val) ELSE [exc |-> c.exc, val |-> ""]
         IN  IF j.exc = "" THEN j
             ELSE IF j.exc \in {"TypeError", "KeyError"}
                  THEN [exc |-> "", val |-> Stringify(search_results.items)]
                  ELSE j

\* line 148 without the substitution
OrSentinelDropped(memory_text) == memory_text

\* line 148: memory_text if memory_text else the sentinel
OrSentinel(memory_text) == IF memory_text # "" THEN memory_text ELSE Sentinel

\* ------------------------------------------------------------ inputs
\* response.user of Supabase: an object with an id and an email
User(id, local, domain) == [t |-> "user", id |-> id, local |-> local, domain |-> domain]
Users == {User("id1", "aya", "example.com"), User("id2", "ken", "example.com")}
Email(u) == u.local \o "@" \o u.domain
\* what the user types into st.chat_input
Inputs == {"hello", "I feel anxious"}
\* what the completion provider answers
Completions == {"text A", "text B"}

\* {"value": {"content": c}}
WellShaped(c) == PyDict(<< <<"value", PyDict(<< <<"content", PyStr(c)>> >>)>> >>)
\* the records a search may return: well shaped, bare text, and malformed ones
Items ==
    { WellShaped("User loves jazz"),
      WellShaped("User drinks tea"),
      WellShaped(""),
      PyStr("User loves jazz"),
      PyStr("tea"),
      PyDict(<< <<"text", PyStr("tea")>> >>),
      PyDict(<< <<"value", PyDict(<< <<"text", PyStr("tea")>> >>)>> >>),
      PyDict(<< <<"value", PyStr("plain")>> >>),
      PyDict(<< <<"value", PyStr("my content here")>> >>),
      PyDict(<< <<"value", PyList(<<PyStr("content")>>)>> >>),
      PyDict(<< <<"value", None>> >>),
      PyDict(<< <<"value", PyDict(<< <<"content", None>> >>)>> >>) }
RECURSIVE SeqsUpTo(_, _)
SeqsUpTo(S, n) ==
    IF n = 0 THEN {<<>>}
    ELSE LET shorter == SeqsUpTo(S, n - 1)
         IN  shorter \cup {Append(q, x) : q \in shorter, x \in S}
\* what search_tool.invoke may return: None, or a list of up to MaxResults records
SearchResults == {None} \cup {PyList(q) : q \in SeqsUpTo(Items, MaxResults)}
\* the results the sessions of several turns draw from: nothing, no record, a
\* well-shaped record, a bare text, a well-shaped record next to a malformed one
SampleResults ==
    { None,
      PyList(<<>>),
      PyList(<<WellShaped("User loves jazz")>>),
      PyList(<<PyStr("User loves jazz")>>),
      PyList(<<WellShaped("User loves jazz"), PyDict(<< <<"value", None>> >>)>>) }

\* ------------------------------------------------------------ state
VARIABLES
    pc,             \* where the script run stands ("idle": no run in progress)
    event,          \* the widget event that started the run
    session_state,  \* st.session_state: the attributes set, and their values
    cache,          \* st.cache_resource of init_langmem_tools: user_id -> tools
    store,          \* the records the memory store holds, as <<namespace, content>>
    calls,          \* the calls made to the store and the provider, in order
    trace,          \* the nodes the current graph.invoke has run
    turn,           \* chat turns submitted so far
    widgets,        \* the widgets the last script run rendered
    raised,         \* the exception that ended the last script run ("" if none)
    user_input,     \* local user_input (line 235)
    state,          \* the channels of the graph during graph.invoke
    node,           \* the node the graph runs next
    result,         \* local result (line 242)
    reply,          \* local reply (lines 243, 246)
    panel           \* what line 253 showed

locals == <<user_input, state, node, result, reply, panel, trace>>
vars == <<pc, event, session_state, cache, store, calls, turn, widgets, raised, locals>>

Unassigned == [t |-> "unassigned"]
NoTool == [kind |-> "none", namespace |-> <<>>]
Tool(kind, namespace) == [kind |-> kind, namespace |-> namespace]

HumanMessage(content) == [type |-> "human", content |-> content]
AIMessage(content) == [type |-> "ai", content |-> content]

\* a session nobody has touched: no attribute is set
FreshSession ==
    [keys |-> {}, user |-> None, messages |-> <<>>, langmem_initialized |-> FALSE,
     manage_tool |-> NoTool, search_tool |-> NoTool]

\* lines 28-33: the defaults of the attributes not yet set
SessionDefaults(ss) ==
    [ss EXCEPT !.keys = @ \cup {"user", "messages", "langmem_initialized"},
               !.user = IF "user" \in ss.keys THEN @ ELSE None,
               !.messages = IF "messages" \in ss.keys THEN @ ELSE <<>>,
               !.langmem_initialized =
                   IF "langmem_initialized" \in ss.keys THEN @ ELSE FALSE]

\* lines 39-42: sign_up when Supabase returns the user u
SignUp(ss, u) ==
    [ss EXCEPT !.user = u,
               !.messages = <<AIMessage("konnichiwa, atarashii tomodachi!")>>]

\* lines 51-56: sign_in when Supabase returns the user u
SignIn(ss, u) ==
    [ss EXCEPT !.user = u,
               !.messages = <<AIMessage("okaerinasai, " \o u.local \o "-san.")>>,
               !.langmem_initialized = FALSE]

\* sign_out that forgets to reset langmem_initialized (line 68)
SignOutKeepsLangmem(ss) == [ss EXCEPT !.user = None, !.messages = <<>>]

\* lines 66-68: sign_out once Supabase has signed the user out
SignOut(ss) ==
    [ss EXCEPT !.user = None, !.messages = <<>>, !.langmem_initialized = FALSE]

\* line 102: the namespace of a user's memories
Namespace(user_id) == <<user_id, "memories">>

\* lines 96-107: what init_langmem_tools(user_id) returns
LangmemTools(user_id) ==
    [manage_tool |-> Tool("manage", Namespace(user_id)),
     search_tool |-> Tool("search", Namespace(user_id))]

\* lines 112-114: the tools become attributes of the session
BindTools(ss, tools) ==
    [ss EXCEPT !.manage_tool = tools.manage_tool,
               !.search_tool = tools.search_tool,
               !.keys = @ \cup {"manage_tool", "search_tool"}]

\* the cache entries st.cache_resource may hold for init_langmem_tools
CacheOf(ids) == {[key |-> id, value |-> LangmemTools(id)] : id \in ids}
Cached(user_id) == \E e \in cache : e.key = user_id
CacheGet(user_id) == (CHOOSE e \in cache : e.key = user_id).value

\* ------------------------------------------------------------ the graph
END == "__end__"
\* line 219
EntryPoint == "retrieve_memory"
\* a graph wired from retrieval straight to generation
EdgeSkipsPlanning(n) ==
    CASE n = "retrieve_memory" -> "chat_by_llm1"
      [] n = "prompt_guidance" -> "chat_by_llm1"
      [] n = "chat_by_llm1" -> END

\* a graph that goes back to retrieval after generation
EdgeBackToRetrieval(n) ==
    CASE n = "retrieve_memory" -> "prompt_guidance"
      [] n = "prompt_guidance" -> "chat_by_llm1"
      [] n = "chat_by_llm1" -> "retrieve_memory"

\* lines 220-222
Edge(n) ==
    CASE n = "retrieve_memory" -> "prompt_guidance"
      [] n = "prompt_guidance" -> "chat_by_llm1"
      [] n = "chat_by_llm1" -> END

\* line 242: the state graph.invoke starts from
InitialState(text) == [input |-> text]

\* channels that keep the value they already hold
MergeKeepsOld(update, channels) == channels @@ update

\* a node's return value written over the channels
Merge(update, channels) == update @@ channels

\* a Stored Turn that drops the user's text
StoredTurnReplyOnly(input, response) == "hibiki: " \o response

\* line 203: the content of the Stored Turn
StoredTurn(input, response) == "user: " \o input \o "\nhibiki: " \o response

\* line 246
Fallback == "gomennasai, umaku kangaerarenakatta mitai desu."
\* line 253: the default of result.get
NoInstructions == "nashi"

\* ------------------------------------------------------------ the script run
NoEvent == [kind |-> "none", text |-> ""]
\* an external call that raises instead of returning
Raises == [t |-> "raise"]

\* a call to the store or the provider, as the outside sees it
Call(op, by, ns, content, ok) ==
    [turn |-> turn, op |-> op, by |-> by, ns |-> ns, content |-> content, ok |-> ok]

\* the script run is over: its locals are gone
EndRun ==
    /\ pc' = "idle"
    /\ event' = NoEvent
    /\ user_input' = None
    /\ state' = <<>>
    /\ node' = ""
    /\ result' = Unassigned
    /\ reply' = Unassigned
    /\ panel' = Unassigned
    /\ trace' = <<>>

\* The sessions a script run can start from.  Line 18 raises unless the
\* session already holds a user, so next to the untouched session the model
\* starts from the sessions in which sign_in or sign_up has stored a user:
\* in a session just initialised, or in one an earlier identity has used and
\* signed out of (its tools are still attributes of the session; its
\* langmem_initialized was set by a cache miss, left unset by a hit).
UsedSessions ==
    {BindTools([SignIn(SessionDefaults(FreshSession), v)
                   EXCEPT !.langmem_initialized = missed],
               LangmemTools(v.id)) : v \in Users, missed \in BOOLEAN}
SignedOutSessions ==
    {SessionDefaults(FreshSession)} \cup {SignOut(ss) : ss \in UsedSessions}
InitialSessions ==
    {FreshSession}
    \cup {SignIn(ss, u) : ss \in SignedOutSessions, u \in Users}
    \cup {SignUp(ss, u) : ss \in SignedOutSessions, u \in Users}

\* the user ids whose tools a session holds
BoundIds(ss) ==
    IF "search_tool" \in ss.keys THEN {ss.search_tool.namespace[1]} ELSE {}

Init ==
    /\ pc = "idle"
    /\ event = NoEvent
    /\ session_state \in InitialSessions
    /\ cache \in {CacheOf(ids) : ids \in {x \in SUBSET {u.id : u \in Users} :
                                             BoundIds(session_state) \subseteq x}}
    /\ store = <<>>
    /\ calls = <<>>
    /\ trace = <<>>
    /\ turn = 0
    /\ widgets = {}
    /\ raised = ""
    /\ user_input = None
    /\ state = <<>>
    /\ node = ""
    /\ result = Unassigned
    /\ reply = Unassigned
    /\ panel = Unassigned

\* The user does something: the script reruns from the top.  A chat message
\* and the logout button need the widget the last run rendered; a session
\* takes up to limit chat messages.
WidgetEvent(limit) ==
    /\ pc = "idle"
    /\ \E e \in {[kind |-> "rerun", text |-> ""], [kind |-> "logout", text |-> ""]}
              \cup {[kind |-> "chat", text |-> x] : x \in Inputs} :
          /\ e.kind = "chat" => "chat_input" \in widgets /\ turn < limit
          /\ e.kind = "logout" => "logout" \in widgets
          /\ event' = e
          /\ turn' = IF e.kind = "chat" THEN turn + 1 ELSE turn
    /\ pc' = "L18"
    /\ widgets' = {}
    /\ raised' = ""
    /\ UNCHANGED <<session_state, cache, store, calls, locals>>

Interact == WidgetEvent(MaxTurns)
InteractOnce == WidgetEvent(MaxShapeTurns)

\* line 18: st.session_state.user.email and .id, before anything is initialised
Banner ==
    /\ pc = "L18"
    /\ IF "user" \in session_state.keys /\ session_state.user.t = "user"
       THEN /\ pc' = "L28"
            /\ UNCHANGED <<event, raised, locals>>
       ELSE /\ raised' = "AttributeError"
            /\ EndRun
    /\ UNCHANGED <<session_state, cache, store, calls, turn, widgets>>

\* lines 28-33
SessionInit ==
    /\ pc = "L28"
    /\ session_state' = SessionDefaults(session_state)
    /\ pc' = "L75"
    /\ UNCHANGED <<event, cache, store, calls, turn, widgets, raised, locals>>

\* lines 75-87: without a user the form is shown and st.stop() ends the run
AuthGate ==
    /\ pc = "L75"
    /\ IF ~Truthy(session_state.user)
       THEN /\ widgets' = widgets \cup {"auth_form"}
            /\ EndRun
       ELSE /\ pc' = "L90"
            /\ UNCHANGED <<event, widgets, locals>>
    /\ UNCHANGED <<session_state, cache, store, calls, turn, raised>>

\* lines 90-92 with sign_out (63-72): st.rerun() starts the script again;
\* a failing Supabase call is reported and the run goes on
Sidebar ==
    /\ pc = "L90"
    /\ IF event.kind = "logout"
       THEN \E ok \in BOOLEAN :
              IF ok
              THEN /\ session_state' = SignOut(session_state)
                   /\ pc' = "L18"
                   /\ event' = [kind |-> "rerun", text |-> ""]
                   /\ widgets' = {}
              ELSE /\ pc' = "L110"
                   /\ widgets' = widgets \cup {"logout"}
                   /\ UNCHANGED <<session_state, event>>
       ELSE /\ pc' = "L110"
            /\ widgets' = widgets \cup {"logout"}
            /\ UNCHANGED <<session_state, event>>
    /\ UNCHANGED <<cache, store, calls, turn, raised, locals>>

\* lines 110-118 with init_langmem_tools (95-107): the body runs on a cache
\* miss only (and may fail to reach Postgres); a hit returns the cached tools
LangmemInit ==
    /\ pc = "L110"
    /\ LET id == session_state.user.id
       IN  IF ~session_state.langmem_initialized
           THEN IF Cached(id)
                THEN /\ session_state' = BindTools(session_state, CacheGet(id))
                     /\ pc' = "L228"
                     /\ UNCHANGED <<cache, raised, event, locals>>
                ELSE \E ok \in BOOLEAN :
                       IF ok
                       THEN /\ cache' = cache \cup {[key |-> id, value |-> LangmemTools(id)]}
                            /\ session_state' =
                                   BindTools([session_state EXCEPT !.langmem_initialized = TRUE],
                                        LangmemTools(id))
                            /\ pc' = "L228"
                            /\ UNCHANGED <<raised, event, locals>>
                       ELSE /\ raised' = "StoreError"
                            /\ EndRun
                            /\ UNCHANGED <<cache, session_state>>
           ELSE IF {"manage_tool", "search_tool"} \subseteq session_state.keys
                THEN /\ pc' = "L228"
                     /\ UNCHANGED <<session_state, cache, raised, event, locals>>
                ELSE /\ raised' = "AttributeError"
                     /\ EndRun
                     /\ UNCHANGED <<cache, session_state>>
    /\ UNCHANGED <<store, calls, turn, widgets>>

\* lines 228-238: the transcript is shown, then the chat input; a submitted
\* text is appended to the transcript
ChatInput ==
    /\ pc = "L228"
    /\ widgets' = widgets \cup {"chat_input"}
    /\ IF event.kind = "chat"
       THEN /\ user_input' = PyStr(event.text)
            /\ session_state' =
                   [session_state EXCEPT !.messages = Append(@, HumanMessage(event.text))]
            /\ pc' = "L242"
       ELSE /\ user_input' = None
            /\ pc' = "L256"
            /\ UNCHANGED session_state
    /\ UNCHANGED <<event, cache, store, calls, turn, raised,
                   state, node, result, reply, panel, trace>>

\* line 242: graph.invoke({"input": user_input}) enters the graph
GraphInvoke ==
    /\ pc = "L242"
    /\ state' = InitialState(user_input.s)
    /\ node' = EntryPoint
    /\ pc' = "graph"
    /\ UNCHANGED <<event, session_state, cache, store, calls, turn, widgets, raised,
                   user_input, result, reply, panel, trace>>

\* ------------------------------------------------------------ the nodes
\* what the provider may do with a prompt: answer, or raise
ProviderOutcomes == {PyStr(c) : c \in Completions} \cup {Raises}

\* one node run, as the graph sees it: the node, the channels it read, what
\* its external call gave back, and the update it returned (Raises: none)
Step(by, reads, outcome, update) ==
    [by |-> by, reads |-> reads, outcome |-> outcome, update |-> update]

\* lines 146-150: what retrieve_memory_node returns
RetrieveReturn(st, memory_text) ==
    [input |-> st.input,
     retrieved_memory |-> OrSentinel(memory_text),
     llm1_prompt_instructions |-> ""]

\* lines 170-174: what prompt_guidance_node returns
GuidanceReturn(st, content) ==
    [input |-> st.input,
     retrieved_memory |-> st.retrieved_memory,
     llm1_prompt_instructions |-> content]

\* a generation node that clears the instructions it was given
ChatReturnClearsInstructions(st, content) ==
    [response |-> content,
     llm1_prompt_instructions |-> ""]

\* lines 207-210: what chat_by_llm1_node returns
ChatReturn(st, content) ==
    [response |-> content,
     llm1_prompt_instructions |-> st.llm1_prompt_instructions]

\* a node that stores the turn before it asks the provider
ChatCallsCreateFirst(st, ns, c, written) ==
    <<Call("create", "chat_by_llm1", ns,
           StoredTurn(st.input, IF c = Raises THEN "" ELSE c.s), written),
      Call("complete", "chat_by_llm1", <<>>, "", c # Raises)>>

\* lines 197-205: the calls chat_by_llm1_node makes, in order: the completion,
\* and once it has answered, one create of the Stored Turn
ChatCalls(st, ns, c, written) ==
    IF c = Raises
    THEN <<Call("complete", "chat_by_llm1", <<>>, "", FALSE)>>
    ELSE <<Call("complete", "chat_by_llm1", <<>>, "", TRUE),
           Call("create", "chat_by_llm1", ns, StoredTurn(st.input, c.s), written)>>

\* an exception leaves graph.invoke: the except clause of line 244 is next
RaiseFromNode ==
    /\ pc' = "L244"
    /\ UNCHANGED <<state, node>>

\* lines 128-150: the search (line 131, outside the try), then the
\* normalisation of what it returned; the search returns one of results or raises
Retrieve(results) ==
    /\ pc = "graph"
    /\ node = "retrieve_memory"
    /\ \E r \in results \cup {Raises} :
          IF "input" \notin DOMAIN state \/ "search_tool" \notin session_state.keys
          THEN RaiseFromNode /\ UNCHANGED <<calls, trace>>
          ELSE LET m == IF r = Raises THEN [exc |-> "StoreError", val |-> ""]
                                      ELSE MemoryText(r)
                   update == IF m.exc # "" THEN Raises ELSE RetrieveReturn(state, m.val)
               IN  /\ calls' = Append(calls, Call("search", node,
                                       session_state.search_tool.namespace,
                                       state.input, r # Raises))
                   /\ trace' = Append(trace, Step(node, [input |-> state.input], r, update))
                   /\ IF update = Raises
                      THEN RaiseFromNode
                      ELSE /\ state' = Merge(update, state)
                           /\ node' = Edge(node)
                           /\ pc' = "graph"
    /\ UNCHANGED <<event, session_state, cache, store, turn, widgets, raised,
                   user_input, result, reply, panel>>

RetrieveMemoryNode == Retrieve(SampleResults)
RetrieveAnyShape == Retrieve(SearchResults)

\* lines 153-174: the planning prompt and the gpt-4o call at temperature 0.3
PromptGuidanceNode ==
    /\ pc = "graph"
    /\ node = "prompt_guidance"
    /\ \E c \in ProviderOutcomes :
          IF ~({"input", "retrieved_memory"} \subseteq DOMAIN state)
          THEN RaiseFromNode /\ UNCHANGED <<calls, trace>>
          ELSE LET update == IF c = Raises THEN Raises ELSE GuidanceReturn(state, c.s)
               IN  /\ calls' = Append(calls, Call("complete", node, <<>>, "", c # Raises))
                   /\ trace' = Append(trace, Step(node,
                                      [input |-> state.input,
                                       retrieved_memory |-> state.retrieved_memory],
                                      c, update))
                   /\ IF update = Raises
                      THEN RaiseFromNode
                      ELSE /\ state' = Merge(update, state)
                           /\ node' = Edge(node)
                           /\ pc' = "graph"
    /\ UNCHANGED <<event, session_state, cache, store, turn, widgets, raised,
                   user_input, result, reply, panel>>

\* lines 177-210: the reply prompt, the gpt-4o call at temperature 0.7, then
\* the create call on the manage tool (line 202, unguarded) and the return
ChatByLlm1Node ==
    /\ pc = "graph"
    /\ node = "chat_by_llm1"
    /\ \E c \in ProviderOutcomes, written \in BOOLEAN :
          IF ~({"llm1_prompt_instructions", "retrieved_memory", "input"} \subseteq DOMAIN state)
             \/ "manage_tool" \notin session_state.keys
          THEN RaiseFromNode /\ UNCHANGED <<calls, trace, store>>
          ELSE LET ns == session_state.manage_tool.namespace
                   issued == ChatCalls(state, ns, c, written)
                   created == SelectSeq(issued, LAMBDA k : k.op = "create" /\ k.ok)
                   failed == \E i \in DOMAIN issued : ~issued[i].ok
                   update == IF failed THEN Raises ELSE ChatReturn(state, c.s)
               IN  /\ calls' = calls \o issued
                   /\ store' = store \o [i \in DOMAIN created |->
                                           <<created[i].ns, created[i].content>>]
                   /\ trace' = Append(trace, Step(node,
                                      [llm1_prompt_instructions |-> state.llm1_prompt_instructions,
                                       retrieved_memory |-> state.retrieved_memory,
                                       input |-> state.input],
                                      c, update))
                   /\ IF update = Raises
                      THEN RaiseFromNode
                      ELSE /\ state' = Merge(update, state)
                           /\ node' = Edge(node)
                           /\ pc' = "graph"
    /\ UNCHANGED <<event, session_state, cache, turn, widgets, raised,
                   user_input, result, reply, panel>>

\* ------------------------------------------------------------ the turn handler
\* a handler that shows the planning instructions as the reply
ReplyOfInstructions(res) == res.llm1_prompt_instructions

\* line 243: the reply read from the result
ReplyOf(res) == res.response

\* lines 242-243: graph.invoke returns the channels; reply = result["response"]
InvokeReturn ==
    /\ pc = "graph"
    /\ node = END
    /\ result' = state
    /\ IF "response" \in DOMAIN state
       THEN /\ reply' = PyStr(ReplyOf(state))
            /\ pc' = "L248"
       ELSE /\ pc' = "L244"
            /\ UNCHANGED reply
    /\ UNCHANGED <<event, session_state, cache, store, calls, turn, widgets, raised,
                   user_input, state, node, panel, trace>>

\* lines 244-246: any Exception of graph.invoke is reported, the reply is the apology
HandleException ==
    /\ pc = "L244"
    /\ reply' = PyStr(Fallback)
    /\ pc' = "L248"
    /\ UNCHANGED <<event, session_state, cache, store, calls, turn, widgets, raised,
                   user_input, state, node, result, panel, trace>>

\* a handler that shows the apology without keeping it in the transcript
AppendReplyUnlessFallback ==
    /\ pc = "L248"
    /\ session_state' =
           [session_state EXCEPT !.messages =
               IF reply.s = Fallback THEN @ ELSE Append(@, AIMessage(reply.s))]
    /\ pc' = "L251"
    /\ UNCHANGED <<event, cache, store, calls, turn, widgets, raised, locals>>

\* lines 248-249: the reply joins the transcript and is shown
AppendReply ==
    /\ pc = "L248"
    /\ session_state' = [session_state EXCEPT !.messages = Append(@, AIMessage(reply.s))]
    /\ pc' = "L251"
    /\ UNCHANGED <<event, cache, store, calls, turn, widgets, raised, locals>>

\* lines 251-253: result.get("llm1_prompt_instructions", default); the name
\* result is unbound when graph.invoke raised
ShowThinking ==
    /\ pc = "L251"
    /\ IF result = Unassigned
       THEN /\ raised' = "NameError"
            /\ EndRun
       ELSE /\ panel' = PyStr(IF "llm1_prompt_instructions" \in DOMAIN result
                                THEN result.llm1_prompt_instructions
                                ELSE NoInstructions)
            /\ pc' = "L256"
            /\ UNCHANGED <<raised, event, user_input, state, node, result, reply, trace>>
    /\ UNCHANGED <<session_state, cache, store, calls, turn, widgets>>

\* lines 256-258 and the end of the script
ScriptEnd ==
    /\ pc = "L256"
    /\ EndRun
    /\ UNCHANGED <<session_state, cache, store, calls, turn, widgets, raised>>

Next ==
    \/ Interact
    \/ Banner
    \/ SessionInit
    \/ AuthGate
    \/ Sidebar
    \/ LangmemInit
    \/ ChatInput
    \/ GraphInvoke
    \/ RetrieveMemoryNode
    \/ PromptGuidanceNode
    \/ ChatByLlm1Node
    \/ InvokeReturn
    \/ HandleException
    \/ AppendReply
    \/ ShowThinking
    \/ ScriptEnd

Spec == Init /\ [][Next]_vars

\* The retrieval stage over every search result: one signed-in session, whose
\* search may return any of SearchResults.
InitShapes ==
    /\ Init
    /\ session_state = SignIn(SessionDefaults(FreshSession), User("id1", "aya", "example.com"))
    /\ cache = {}

NextShapes ==
    \/ InteractOnce
    \/ Banner
    \/ SessionInit
    \/ AuthGate
    \/ Sidebar
    \/ LangmemInit
    \/ ChatInput
    \/ GraphInvoke
    \/ RetrieveAnyShape
    \/ PromptGuidanceNode
    \/ ChatByLlm1Node
    \/ InvokeReturn
    \/ HandleException
    \/ AppendReply
    \/ ShowThinking
    \/ ScriptEnd

SpecShapes == InitShapes /\ [][NextShapes]_vars

\* One session in which a script run, once started, goes on to its end: the
\* script is run synchronously from top to bottom, and every call to the
\* store or the provider returns or raises.
RunStep ==
    \/ Banner
    \/ SessionInit
    \/ AuthGate
    \/ Sidebar
    \/ LangmemInit
    \/ ChatInput
    \/ GraphInvoke
    \/ RetrieveMemoryNode
    \/ PromptGuidanceNode
    \/ ChatByLlm1Node
    \/ InvokeReturn
    \/ HandleException
    \/ AppendReply
    \/ ShowThinking
    \/ ScriptEnd

NextLive ==
    \/ Interact
    \/ RunStep

SpecLive == InitShapes /\ [][NextLive]_vars /\ WF_vars(RunStep)

\* ------------------------------------------------------------ properties
\* the calls of the current turn, in order
TurnCalls == SelectSeq(calls, LAMBDA k : k.turn = turn)
\* a graph.invoke is under way or has just ended, its locals still alive
InTurn == pc \in {"graph", "L244", "L248", "L251", "L256"} /\ user_input.t = "str"
\* the provider raised in the planning or the generation stage of this turn
ProviderRaised ==
    \E i \in DOMAIN TurnCalls : TurnCalls[i].op = "complete" /\ ~TurnCalls[i].ok
\* the last text the transcript holds
LastMessage == session_state.messages[Len(session_state.messages)]
\* the step a node of the current run has left in the trace
StepsOf(n) == {i \in DOMAIN trace : trace[i].by = n}

\* C1: when the provider raises in planning or generation, the turn ends with
\* the apology as the reply in the transcript and with no exception leaving
\* the turn handler.
C1_FallbackAndNoException ==
    (pc = "idle" /\ turn > 0 /\ ProviderRaised)
        => /\ session_state.messages # <<>>
           /\ LastMessage = AIMessage(Fallback)
           /\ raised = ""

\* C2: when the generation call answered and the create call then failed, the
\* reply of the turn is the generated text.
C2_ReplySurvivesCreateFailure ==
    (InTurn /\ reply # Unassigned
       /\ \E i \in DOMAIN TurnCalls : TurnCalls[i].op = "create" /\ ~TurnCalls[i].ok)
        => \E i \in StepsOf("chat_by_llm1") :
              trace[i].outcome # Raises /\ reply.s = trace[i].outcome.s

\* C3: when the search call fails, the run goes on to planning with the
\* sentinel as retrieved_memory.
C3_SearchFailureContinues ==
    (InTurn /\ \E i \in DOMAIN TurnCalls : TurnCalls[i].op = "search" /\ ~TurnCalls[i].ok)
        => /\ pc # "L244"
           /\ "retrieved_memory" \in DOMAIN state
           /\ state.retrieved_memory = Sentinel
           /\ reply # PyStr(Fallback)

\* the generation call of a turn that answered
GenerationCompleted(k) == k.op = "complete" /\ k.by = "chat_by_llm1" /\ k.ok
\* how many calls of the session satisfy a test
CountCalls(Test(_)) == Cardinality({i \in DOMAIN calls : Test(calls[i])})
IsCreate(k) == k.op = "create"
IsStored(k) == k.op = "create" /\ k.ok
\* every answered generation call is followed at once by one create call of
\* the same turn, every create call follows such a call, and the content of
\* the current turn's create call is the template over the text the user
\* typed and the text the provider returned
OneCreatePerGeneration ==
    /\ \A i \in DOMAIN calls :
          GenerationCompleted(calls[i])
              => /\ i + 1 \in DOMAIN calls
                 /\ IsCreate(calls[i + 1])
                 /\ calls[i + 1].turn = calls[i].turn
    /\ \A i \in DOMAIN calls :
          IsCreate(calls[i])
              => /\ calls[i].by = "chat_by_llm1"
                 /\ i - 1 \in DOMAIN calls
                 /\ GenerationCompleted(calls[i - 1])
                 /\ calls[i - 1].turn = calls[i].turn
    /\ InTurn =>
          \A i \in DOMAIN TurnCalls :
             IsCreate(TurnCalls[i])
                 => \E j \in StepsOf("chat_by_llm1") :
                       /\ trace[j].outcome # Raises
                       /\ TurnCalls[i].content =
                              "user: " \o event.text \o "\nhibiki: " \o trace[j].outcome.s

\* C4 (as stated): one create call per answered generation call, with the
\* template as content, and as many Stored Turns in the store as answered
\* generation calls.
C4_StoredEqualsGenerated ==
    /\ OneCreatePerGeneration
    /\ Len(store) = CountCalls(GenerationCompleted)

\* C4 (amended): one create call per answered generation call, with the
\* template as content; the create calls issued are as many as the answered
\* generation calls, and the store holds exactly the Stored Turns of the
\* create calls that succeeded, in order.
C4_CreateCallsEqualGenerated ==
    /\ OneCreatePerGeneration
    /\ CountCalls(IsCreate) = CountCalls(GenerationCompleted)
    /\ LET stored == SelectSeq(calls, IsStored)
       IN  store = [i \in DOMAIN stored |-> <<stored[i].ns, stored[i].content>>]

\* two turns generated a reply; the create of one failed, the other is stored
C4_Witness ==
    /\ CountCalls(GenerationCompleted) = 2
    /\ Len(store) = 1
    /\ store[1][2] = "user: hello\nhibiki: text B"

\* C5: a create call is only ever issued after the generation call of the
\* same turn has answered; a turn in which the provider raised (in planning
\* or generation) issues no create call, and nothing is stored without an
\* answered generation call.
C5_NoCreateWithoutGeneration ==
    /\ \A i \in DOMAIN calls :
          IsCreate(calls[i])
              => \E j \in 1..(i - 1) :
                    calls[j].turn = calls[i].turn /\ GenerationCompleted(calls[j])
    /\ \A i, j \in DOMAIN calls :
          (calls[i].op = "complete" /\ ~calls[i].ok /\ calls[j].turn = calls[i].turn)
              => ~IsCreate(calls[j])
    /\ Len(store) <= CountCalls(GenerationCompleted)

\* the second turn's generation call raised after the first turn was stored
C5_Witness ==
    /\ pc = "L251"
    /\ turn = 2
    /\ Len(store) = 1
    /\ \E i \in DOMAIN TurnCalls :
          TurnCalls[i].by = "chat_by_llm1" /\ TurnCalls[i].op = "complete" /\ ~TurnCalls[i].ok
    /\ reply = PyStr(Fallback)

\* C6: the reply put into the transcript is the apology, or the text the
\* generation call returned in a run whose search, planning call, generation
\* call and create call all succeeded.
C6_ReplyIsGenerationOrFallback ==
    pc = "L251"
        => /\ LastMessage = AIMessage(reply.s)
           /\ \/ reply.s = Fallback
              \/ /\ Len(TurnCalls) = 4
                 /\ \A i \in DOMAIN TurnCalls : TurnCalls[i].ok
                 /\ <<TurnCalls[1].op, TurnCalls[2].op, TurnCalls[3].op, TurnCalls[4].op>>
                        = <<"search", "complete", "complete", "create">>
                 /\ \E j \in StepsOf("chat_by_llm1") : reply.s = trace[j].outcome.s

\* a generated reply is delivered, and it differs from the planning text
C6_Witness ==
    /\ pc = "L251"
    /\ reply.s \in Completions
    /\ LastMessage = AIMessage(reply.s)
    /\ \E j \in StepsOf("prompt_guidance") : trace[j].outcome.s # reply.s

\* the order of the stages, and of the calls they make
StageOrder == <<"retrieve_memory", "prompt_guidance", "chat_by_llm1">>
CallOrder ==
    << <<"search", "retrieve_memory">>, <<"complete", "prompt_guidance">>,
       <<"complete", "chat_by_llm1">>, <<"create", "chat_by_llm1">> >>
CallsOfTurn(n) == SelectSeq(calls, LAMBDA k : k.turn = n)

\* C7: in each run the nodes run in the order retrieval, planning, generation,
\* none skipped or repeated; the calls of a turn are search, planning call,
\* generation call, create, in that order, each made only after the one
\* before it returned; planning reads the retrieved_memory the retrieval of
\* this run returned, generation reads the instructions the planning of this
\* run returned.
C7_StagesInOrder ==
    /\ Len(trace) <= Len(StageOrder)
    /\ \A i \in DOMAIN trace : trace[i].by = StageOrder[i]
    /\ (pc = "graph" /\ node = END) => Len(trace) = Len(StageOrder)
    /\ \A n \in 1..turn :
          LET cs == CallsOfTurn(n)
          IN  /\ Len(cs) <= Len(CallOrder)
              /\ \A i \in DOMAIN cs :
                    /\ <<cs[i].op, cs[i].by>> = CallOrder[i]
                    /\ i < Len(cs) => cs[i].ok
    /\ \A i \in StepsOf("prompt_guidance") :
          \E j \in 1..(i - 1) :
             /\ trace[j].by = "retrieve_memory"
             /\ trace[j].update # Raises
             /\ trace[i].reads.retrieved_memory = trace[j].update.retrieved_memory
    /\ \A i \in StepsOf("chat_by_llm1") :
          \E j \in 1..(i - 1) :
             /\ trace[j].by = "prompt_guidance"
             /\ trace[j].outcome # Raises
             /\ trace[i].reads.llm1_prompt_instructions = trace[j].outcome.s

\* the second turn of a session has run all three stages and made all four calls
C7_Witness ==
    /\ pc = "graph"
    /\ node = END
    /\ turn = 2
    /\ Len(TurnCalls) = 4
    /\ Len(trace) = 3

\* C8: while a user is signed in, every search and create call of the session
\* was issued against the namespace (that user's id, "memories"), and so was
\* every record stored.
C8_CallsInOwnNamespace ==
    session_state.user.t = "user"
        => /\ \A i \in DOMAIN calls :
                 calls[i].op \in {"search", "create"}
                     => calls[i].ns = <<session_state.user.id, "memories">>
           /\ \A i \in DOMAIN store : store[i][1] = <<session_state.user.id, "memories">>

\* the user id2 has searched and stored in a session whose cache also holds
\* the tools of id1
C8_Witness ==
    /\ session_state.user.t = "user"
    /\ session_state.user.id = "id2"
    /\ Cached("id1")
    /\ \E i \in DOMAIN calls : calls[i].op = "search"
    /\ store # <<>>

\* C9: whatever the search returned (None, an empty list, well-shaped
\* records, bare texts, malformed or mixed records), the retrieval node
\* returns, and its retrieved_memory is not the empty text.
C9_RetrievalTotal ==
    \A i \in StepsOf("retrieve_memory") :
       trace[i].outcome # Raises
           => /\ trace[i].update # Raises
              /\ trace[i].update.retrieved_memory # ""

\* a malformed record next to a well-shaped one came back as a text
C9_Witness ==
    \E i \in StepsOf("retrieve_memory") :
       /\ trace[i].outcome =
              PyList(<<WellShaped("User loves jazz"), PyDict(<< <<"value", None>> >>)>>)
       /\ trace[i].update # Raises
       /\ trace[i].update.retrieved_memory # Sentinel

\* the records the filter of line 141 passes over
SkippedItems ==
    { PyStr("User loves jazz"),
      PyStr("tea"),
      PyDict(<< <<"text", PyStr("tea")>> >>),
      PyDict(<< <<"value", PyDict(<< <<"text", PyStr("tea")>> >>)>> >>),
      PyDict(<< <<"value", PyStr("plain")>> >>) }
\* a search result from which no text can be extracted: None, no records, or
\* records that are passed over, with at most one record of empty content
NothingToExtract(r) ==
    \/ r = None
    \/ /\ r.t = "list"
       /\ \A i \in DOMAIN r.items : r.items[i] \in SkippedItems \cup {WellShaped("")}
       /\ Cardinality({i \in DOMAIN r.items : r.items[i] = WellShaped("")}) <= 1

PipelineFields == {"input", "retrieved_memory", "llm1_prompt_instructions", "response"}
\* the three nodes of the current run have all returned
AllStagesCompleted ==
    /\ Len(trace) = Len(StageOrder)
    /\ \A i \in DOMAIN trace : trace[i].update # Raises
\* res holds the four fields: the text the user typed, the text the retrieval
\* node returned, the planning completion and the generation completion
FullState(res) ==
    /\ DOMAIN res = PipelineFields
    /\ res.input = event.text
    /\ res.retrieved_memory = trace[1].update.retrieved_memory
    /\ res.llm1_prompt_instructions = trace[2].outcome.s
    /\ res.response = trace[3].outcome.s

\* C11: once the three nodes of a run have returned, the graph is at its end
\* with all four fields set, graph.invoke returns them as the result, and in
\* both response is the generation completion, llm1_prompt_instructions the
\* planning completion, input the text the user typed and retrieved_memory
\* the text the retrieval node returned.
C11_DoneCarriesAllFields ==
    AllStagesCompleted
        => /\ pc \in {"graph", "L248", "L251", "L256"}
           /\ pc = "graph" => node = END
           /\ FullState(state)
           /\ pc # "graph" => result # Unassigned /\ FullState(result)

\* a run returned a result whose four fields are four different texts
C11_Witness ==
    /\ pc = "L248"
    /\ AllStagesCompleted
    /\ result # Unassigned
    /\ result.input = "hello"
    /\ result.retrieved_memory = "User loves jazz"
    /\ result.llm1_prompt_instructions = "text A"
    /\ result.response = "text B"

\* a record of the shape {"value": {..., "content": ...}}
NestedShape(r) ==
    /\ r.t = "dict"
    /\ "value" \in Keys(r)
    /\ GetItem(r, "value").t = "dict"
    /\ "content" \in Keys(GetItem(r, "value"))
\* a record {"value": {"content": <str>}}
NestedText(r) == NestedShape(r) /\ GetItem(GetItem(r, "value"), "content").t = "str"
\* the search of a step returned a list with at least one record
NonEmptyResult(i) ==
    /\ trace[i].outcome # Raises
    /\ trace[i].outcome.t = "list"
    /\ trace[i].outcome.items # <<>>
\* the texts of a list of records, and of their nested contents, one per line
TextsOf(rs) == JoinStrings("\n", [k \in DOMAIN rs |-> PyStrOf(rs[k])])
ContentsOf(rs) ==
    JoinStrings("\n", [k \in DOMAIN rs |-> GetItem(GetItem(rs[k], "value"), "content").s])

\* C12: when a non-empty search result holds a record that is not of the
\* nested shape, retrieved_memory is the textual representation of every
\* record of the result, one per line.
C12_UniformStringification ==
    \A i \in StepsOf("retrieve_memory") :
       (NonEmptyResult(i)
          /\ \E k \in DOMAIN trace[i].outcome.items : ~NestedShape(trace[i].outcome.items[k]))
           => /\ trace[i].update # Raises
              /\ trace[i].update.retrieved_memory = TextsOf(trace[i].outcome.items)

\* C13: when the search returns a non-empty list of bare texts,
\* retrieved_memory is those texts, one per line, in the order returned.
C13_BareStringsJoined ==
    \A i \in StepsOf("retrieve_memory") :
       (NonEmptyResult(i)
          /\ \A k \in DOMAIN trace[i].outcome.items : trace[i].outcome.items[k].t = "str")
           => /\ trace[i].update # Raises
              /\ trace[i].update.retrieved_memory # Sentinel
              /\ trace[i].update.retrieved_memory =
                     JoinStrings("\n", [k \in DOMAIN trace[i].outcome.items |->
                                           trace[i].outcome.items[k].s])

\* C14 (as stated): when every record of the search result is
\* {"value": {"content": <str>}}, retrieved_memory is exactly the contents
\* joined by single newlines, in the order returned.
C14_ContentsJoined ==
    \A i \in StepsOf("retrieve_memory") :
       (NonEmptyResult(i)
          /\ \A k \in DOMAIN trace[i].outcome.items : NestedText(trace[i].outcome.items[k]))
           => /\ trace[i].update # Raises
              /\ trace[i].update.retrieved_memory = ContentsOf(trace[i].outcome.items)

\* C14 (amended): when every record of the search result is
\* {"value": {"content": <str>}}, retrieved_memory is the contents joined by
\* single newlines, in the order returned, unless that text is empty (one
\* record of empty content): then it is the sentinel.
C14_ContentsJoinedOrSentinel ==
    \A i \in StepsOf("retrieve_memory") :
       (NonEmptyResult(i)
          /\ \A k \in DOMAIN trace[i].outcome.items : NestedText(trace[i].outcome.items[k]))
           => /\ trace[i].update # Raises
              /\ ContentsOf(trace[i].outcome.items) # ""
                    => trace[i].update.retrieved_memory = ContentsOf(trace[i].outcome.items)
              /\ ContentsOf(trace[i].outcome.items) = ""
                    => trace[i].update.retrieved_memory = Sentinel

\* two well-shaped records came back as two lines, in the order returned
C14_Witness ==
    \E i \in StepsOf("retrieve_memory") :
       /\ trace[i].outcome =
              PyList(<<WellShaped("User drinks tea"), WellShaped("User loves jazz")>>)
       /\ trace[i].update # Raises
       /\ trace[i].update.retrieved_memory = "User drinks tea\nUser loves jazz"
       /\ state.retrieved_memory = "User drinks tea\nUser loves jazz"

\* the field each node is there to produce
Owned(n) ==
    CASE n = "retrieve_memory" -> {"retrieved_memory"}
      [] n = "prompt_guidance" -> {"llm1_prompt_instructions"}
      [] n = "chat_by_llm1" -> {"response"}
RECURSIVE ChannelsBefore(_)
\* the channels as the i-th node of the current run found them
ChannelsBefore(i) ==
    IF i = 1 THEN [input |-> event.text]
    ELSE trace[i - 1].update @@ ChannelsBefore(i - 1)
\* the channels once the i-th node has returned
ChannelsAfter(i) == trace[i].update @@ ChannelsBefore(i)
\* the i-th node left field f as it found it: unset, or set to the same text
Untouched(i, f) ==
    /\ f \in DOMAIN ChannelsAfter(i) <=> f \in DOMAIN ChannelsBefore(i)
    /\ f \in DOMAIN ChannelsBefore(i) => ChannelsAfter(i)[f] = ChannelsBefore(i)[f]
\* the channels of the graph are what the returned nodes made of them
ChannelsTracked ==
    (pc = "graph" /\ \A i \in DOMAIN trace : trace[i].update # Raises)
        => /\ state.input = event.text
           /\ trace # <<>> => state = ChannelsAfter(Len(trace))

\* C15 (as stated): every node that returns leaves each field it does not own
\* as it found it (the retrieval node sets neither llm1_prompt_instructions
\* nor response), and input stays the text the user typed.
C15_OnlyOwnedFieldsWritten ==
    /\ ChannelsTracked
    /\ \A i \in DOMAIN trace :
          trace[i].update # Raises
              => \A f \in PipelineFields \ Owned(trace[i].by) : Untouched(i, f)

\* C15 (amended): every node that returns leaves each field it does not own
\* as it found it, but for the retrieval node, which also sets
\* llm1_prompt_instructions, unset until then, to the empty text; the
\* retrieval node does not set response, and input stays the text the user
\* typed.
C15_OwnedFieldsAndPlaceholder ==
    /\ ChannelsTracked
    /\ \A i \in DOMAIN trace :
          trace[i].update # Raises
              => \A f \in PipelineFields \ Owned(trace[i].by) :
                    \/ Untouched(i, f)
                    \/ /\ trace[i].by = "retrieve_memory"
                       /\ f = "llm1_prompt_instructions"
                       /\ f \notin DOMAIN ChannelsBefore(i)
                       /\ ChannelsAfter(i)[f] = ""

\* the three nodes have returned: the retrieval node set the instructions to
\* the empty text, the planning node to its completion, and the generation
\* node left them alone
C15_Witness ==
    /\ AllStagesCompleted
    /\ ChannelsAfter(1).llm1_prompt_instructions = ""
    /\ ChannelsAfter(2).llm1_prompt_instructions = "text A"
    /\ ChannelsAfter(3).llm1_prompt_instructions = "text A"
    /\ state.llm1_prompt_instructions = "text A"
    /\ state.response = "text B"

\* the position of a node in the graph, its end included
Rank(n) ==
    CASE n = "retrieve_memory" -> 1
      [] n = "prompt_guidance" -> 2
      [] n = "chat_by_llm1" -> 3
      [] OTHER -> 4
\* graph.invoke has returned (DONE), or an exception has left it (FAILED)
RunDone == pc = "graph" /\ node = END
RunFailed == pc = "L244"

\* C16: every graph.invoke that starts ends, returning or raising; no node of
\* a run runs twice, the graph only ever moves forward to a later node, and
\* once the run has returned or raised no node runs until the next
\* graph.invoke.
C16_RunTerminates ==
    /\ [](\A n \in {"retrieve_memory", "prompt_guidance", "chat_by_llm1"} :
             Cardinality(StepsOf(n)) <= 1)
    /\ [][(pc = "graph" /\ pc' = "graph") => Rank(node') > Rank(node)]_vars
    /\ [][pc' = "graph" => (pc = "L242" \/ (pc = "graph" /\ node # END))]_vars
    /\ [][(RunDone \/ RunFailed) => (pc' # "graph" /\ trace' \in {trace, <<>>})]_vars
    /\ (pc = "L242") ~> (RunDone \/ RunFailed)

\* the second run of a session failed in its last stage, each stage having run once
C16_Witness ==
    /\ RunFailed
    /\ turn = 2
    /\ Len(trace) = 3
    /\ \A n \in {"retrieve_memory", "prompt_guidance", "chat_by_llm1"} :
          Cardinality(StepsOf(n)) = 1

\* the greetings sign_in and sign_up leave in the transcript
Greetings ==
    {SignIn(FreshSession, u).messages[1] : u \in Users}
    \cup {SignUp(FreshSession, u).messages[1] : u \in Users}
\* the chat turns whose user message is in the transcript
TurnsShown == IF pc \in {"L18", "L28", "L75", "L90", "L110", "L228"} /\ event.kind = "chat"
              THEN turn - 1 ELSE turn
\* the turn handler stands between its two appends (lines 237 and 248)
ReplyPending == pc \in {"L242", "graph", "L244", "L248"}

\* C17: in a signed-in session the transcript is the greeting followed by
\* one user message and one assistant message per chat turn, alternating;
\* the user message of the current turn carries the text typed, and the
\* assistant message appended for it carries the reply of the turn (which is
\* the apology when the run failed); only the reply of the turn under way
\* may still be missing.
C17_TranscriptAlternates ==
    session_state.user.t = "user"
        => LET msgs == session_state.messages
           IN  /\ msgs # <<>>
               /\ msgs[1] \in Greetings
               /\ \A i \in 2..Len(msgs) :
                     msgs[i].type = IF i % 2 = 0 THEN "human" ELSE "ai"
               /\ Len(msgs) = IF ReplyPending THEN 2 * TurnsShown ELSE 1 + 2 * TurnsShown
               /\ ReplyPending => msgs[Len(msgs)] = HumanMessage(event.text)
               /\ pc = "L251"
                     => /\ msgs[Len(msgs) - 1] = HumanMessage(event.text)
                        /\ msgs[Len(msgs)] = AIMessage(reply.s)
                        /\ (result = Unassigned) => reply.s = Fallback
                        /\ (result # Unassigned) => reply.s = result.response

\* after a turn that succeeded and a turn that failed the transcript holds
\* the greeting and two pairs, the second ending in the apology
C17_Witness ==
    /\ pc = "idle"
    /\ session_state.user.t = "user"
    /\ Len(session_state.messages) = 5
    /\ session_state.messages[2] = HumanMessage("hello")
    /\ session_state.messages[3] = AIMessage("text A")
    /\ session_state.messages[4] = HumanMessage("I feel anxious")
    /\ session_state.messages[5] = AIMessage(Fallback)

\* C18: no turn ends in an exception leaving the handler; line 253 always
\* finds result bound by the graph.invoke of this turn, and after a failed
\* run the panel shows the default text.
C18_HandlerNeverRaises ==
    /\ raised # "NameError"
    /\ pc = "L251" => result # Unassigned
    /\ (pc = "L256" /\ event.kind = "chat")
          => /\ panel # Unassigned
             /\ reply = PyStr(Fallback) => panel = PyStr(NoInstructions)

\* C19: no script run reads an attribute of the session before it is set, or
\* an attribute of the user while nobody is signed in: line 18 is reached
\* only with a user in the session, no run ends in an AttributeError, a run
\* without a signed-in user ends showing the form, and no call to the store
\* or the provider is made without a signed-in user.
C19_ReadsAfterInit ==
    /\ pc = "L18" => ("user" \in session_state.keys /\ session_state.user.t = "user")
    /\ raised # "AttributeError"
    /\ (pc = "idle" /\ session_state.user.t # "user" /\ (raised # "" \/ widgets # {}))
          => "auth_form" \in widgets
    /\ pc \in {"L242", "graph"} => session_state.user.t = "user"

====
